---- MODULE Spec2Model ----
(***************************************************************************)
(* A model of the gotrycatch library (src/gotrycatch.go): the protected    *)
(* call Try, the typed dispatch Catch / CatchWithReturn, the fallback      *)
(* CatchAny, the cleanup step Finally and Throw, on top of the panic /     *)
(* recover discipline of the Go runtime.                                   *)
(*                                                                         *)
(* The caller's program is arbitrary: at every point it may call any of    *)
(* the operations, on any block it can hold a reference to, with any       *)
(* declared type and any handler.  A handler or a cleanup is a callback;   *)
(* what it does is drawn from a small set of behaviours (it returns, it    *)
(* raises a payload, it calls recover).  The computation handed to Try is  *)
(* a callback too: between the call of Try and its return the caller's     *)
(* code runs inside it, so Try is split at the call of fn.                 *)
(***************************************************************************)
EXTENDS Integers, Sequences, FiniteSets, TLC

(* ---------------------------- bounds ----------------------------------- *)
\* number of TryBlock records one run may allocate
MaxBlocks == 2
\* nesting depth of Try computations that are executing at the same time
MaxDepth == 2
\* number of dispatch stages recorded for one chain
MaxStages == 3
\* number of URLs a NetworkError is built with
MaxURLs == 3
\* the status codes a NetworkError is built with are 0, 101, ..., 101 * MaxCodes
MaxCodes == 5
\* number of execution contexts (goroutines) that share one block
MaxContexts == 2

(* ---------------------------- payloads --------------------------------- *)
\* the nil interface value: no dynamic type, no value
Nil == [type |-> "nil", val |-> 0]

\* what the runtime of Go 1.21 and later substitutes for panic(nil)
PanicNilError == [type |-> "PanicNilError", val |-> 0]

\* typed payloads a caller raises: two strings and a ValidationError
Payloads ==
  { [type |-> "string", val |-> 1], [type |-> "string", val |-> 2],
    [type |-> "ValidationError", val |-> 1] }

\* every value an interface{} may hold in the model
Values == Payloads \cup {Nil}

\* what the runtime panics with on an invalid operation (index out of range,
\* nil dereference, ...): a value of a runtime type that implements error
RuntimeFault == [type |-> "runtime.Error", val |-> 0]

\* the types a Catch may be declared for; "error" is an interface type
InterfaceTypes == {"error"}

DeclTypes == {"string", "ValidationError", "error"}

\* the method sets: the concrete types that implement an interface type
Implements(ct, it) ==
  it = "error" /\ ct \in {"ValidationError", "PanicNilError", "runtime.Error"}

\* the type assertion  v.(T)  of Go: ok for a non-nil v whose dynamic type is
\* T (T a concrete type) or implements T (T an interface type)
Assertable(v, T) ==
  /\ v # Nil
  /\ IF T \in InterfaceTypes THEN Implements(v.type, T) ELSE v.type = T

(* ---------------------------- state ------------------------------------ *)
VARIABLES
  gover,    \* the Go release the program is built with: decides panic(nil)
  heap,     \* heap[b]: the TryBlock record with identity b
  nblocks,  \* number of records allocated so far: 1..nblocks exist
  stack,    \* blocks of the Try calls whose computation is executing, innermost first
  status,   \* "running", or "fatal" once a panic left the outermost frame
  fatalv,   \* the payload the process died with
  watch,    \* which history the run keeps: "call" (last), "chain" (chain),
            \* "count" (tally) or "trace" (trace)
  chain,    \* the dispatch stages applied, in call order, to the block the last Try returned
  last,     \* the operation that was executed last, with what it did
  tally,    \* tally[b]: handler invocations on block b, and how many of them raised
  trace,    \* the callbacks run, in order, by the chain of the block the last Try returned
  neterr,   \* a NetworkError value of package errors: how it was built, and its message
  ctx       \* ctx[g]: where goroutine g is in its dispatch call on a shared block

vars == <<gover, heap, nblocks, stack, status, fatalv, watch, chain, last,
          tally, trace, neterr, ctx>>

\* the state of the gotrycatch package
core == <<gover, heap, nblocks, stack, status, fatalv, watch, chain, last,
          tally, trace, ctx>>

\* &TryBlock{}
EmptyBlock == [err |-> Nil, handled |-> FALSE]

Absent == 0

\* no chain is being followed
NoChain == [blk |-> Absent, stages |-> <<>>, open |-> FALSE]

\* Try has just returned block b: its chain starts
NewChain(b) ==
  IF watch = "chain" THEN [blk |-> b, stages |-> <<>>, open |-> TRUE]
  ELSE NoChain

\* the log of a chain that is over is kept for one step only
Kept(c) == IF c.open THEN c ELSE NoChain

\* the blocks a Try has returned: the only ones the caller's code can name
Returned == {b \in 1..nblocks : \A i \in 1..Len(stack) : stack[i] # b}

Refs == Returned \cup {Absent}

\* a callback that returns (with result v), raises v, or calls recover()
Ret(v) == [k |-> "ret", v |-> v]

Raises(v) == [k |-> "raise", v |-> v]

Recovers == [k |-> "recover", v |-> Nil]

\* handlers of Catch and CatchAny have no result
Handlers == {Ret(Nil)} \cup {Raises(v) : v \in Payloads}

\* handlers of CatchWithReturn produce an interface{} value
Results == {Nil, [type |-> "string", val |-> 1]}

ReturningHandlers == {Ret(v) : v \in Results} \cup {Raises(v) : v \in Payloads}

Cleanups == {Ret(Nil), Recovers} \cup {Raises(v) : v \in Payloads}

NoOp ==
  [op |-> "none", blk |-> Absent, T |-> "-", pre |-> EmptyBlock, calls |-> 0,
   arg |-> Nil, out |-> Absent, result |-> Nil, done |-> "returned",
   raised |-> Nil, cleanups |-> 0, cb |-> "-", captor |-> Absent,
   hret |-> Nil, events |-> <<>>, cbv |-> Nil, comp |-> "-"]

\* the record of an operation, kept in last
Seen(rec) == IF watch = "call" THEN rec ELSE NoOp

\* no handler has been invoked on any block
NoTally == [b \in 1..MaxBlocks |-> [calls |-> 0, raised |-> 0]]

\* the handler of a dispatch call on block b has been invoked; k tells how it ended
Counted(b, k) ==
  IF watch = "count"
  THEN [tally EXCEPT ![b].calls = @ + 1,
                     ![b].raised = @ + (IF k = "raise" THEN 1 ELSE 0)]
  ELSE tally

\* one callback run, or one step of Finally: e names it; k tells how a
\* handler or a cleanup ended; for a handler, stage is the position of its
\* dispatch call in the chain
Event(e, stage, k) == [e |-> e, stage |-> stage, k |-> k]

\* no chain is being traced
NoTrace == [blk |-> Absent, events |-> <<>>, stages |-> 0, open |-> FALSE]

\* Try has just returned block b: its computation has run
NewTrace(b) ==
  IF watch = "trace"
  THEN [blk |-> b, events |-> <<Event("body", 0, "-")>>, stages |-> 0,
        open |-> TRUE]
  ELSE NoTrace

\* the trace of a chain that is over is kept for one step only
Settled(tr) == IF tr.open THEN tr ELSE NoTrace

\* a panic leaves the current frame with trace tr written so far: the Try
\* that recovers it returns its block, whose chain is traced from then on
Unwound(tr) == IF stack = <<>> THEN tr ELSE NewTrace(Head(stack))

(* ---------------------------- goroutines ------------------------------- *)
Contexts == 1..MaxContexts

\* goroutine g is not in a call.  In a call: the operation and its type, the
\* block it was given, whether its guard was true, and whether the flag was
\* already set in memory when the guard read it
Idle ==
  [pc |-> "idle", op |-> "-", T |-> "-", blk |-> Absent, fired |-> FALSE,
   late |-> FALSE]

NoContexts == [g \in Contexts |-> Idle]

(* ---------------------------- package errors: NetworkError ------------- *)
URLs == 1..MaxURLs

StatusCodes == {101 * k : k \in 0..MaxCodes}

\* a string produced by fmt.Sprintf, as its pieces: the text before the
\* number, the digits of the number, the text between, the URL
Text(head, digits, mid, url) ==
  [head |-> head, digits |-> digits, mid |-> mid, url |-> url]

NoText == Text("", <<>>, "", 0)

\* the verb %d on a non-negative int: its decimal digits, most significant first
RECURSIVE Itoa(_)
Itoa(n) == IF n < 10 THEN <<n>> ELSE Append(Itoa(n \div 10), n % 10)

\* Error with the form chosen by the status code instead of Timeout
ErrorByStatusCode(e) ==
  IF e.StatusCode = 0
  THEN Text("network timeout when accessing ", <<>>, "", e.URL)
  ELSE Text("network error ", Itoa(e.StatusCode), " when accessing ", e.URL)

\* func (e NetworkError) Error() string
Error(e) ==
  IF e.Timeout
  THEN Text("network timeout when accessing ", <<>>, "", e.URL)
  ELSE Text("network error ", Itoa(e.StatusCode), " when accessing ", e.URL)

\* NetworkError{URL: url, StatusCode: code, Timeout: timeout}
NetworkError(url, code, timeout) ==
  [URL |-> url, StatusCode |-> code, Timeout |-> timeout]

\* func NewNetworkError(url string, statusCode int) NetworkError
NewNetworkError(url, statusCode) == NetworkError(url, statusCode, FALSE)

\* func NewNetworkTimeoutError(url string) NetworkError: StatusCode is left
\* at the zero value
NewNetworkTimeoutError(url) == NetworkError(url, 0, TRUE)

\* no NetworkError has been built
NoNetErr ==
  [by |-> "none", url |-> 0, code |-> 0, rec |-> NetworkError(0, 0, FALSE),
   msg |-> NoText]

\* the caller builds a NetworkError with one of the constructors, or with a
\* composite literal (the fields are exported)
BuildNetworkError(url, code) ==
  /\ neterr' = [by |-> "NewNetworkError", url |-> url, code |-> code,
                rec |-> NewNetworkError(url, code), msg |-> NoText]
  /\ UNCHANGED core

BuildNetworkTimeoutError(url) ==
  /\ neterr' = [by |-> "NewNetworkTimeoutError", url |-> url, code |-> 0,
                rec |-> NewNetworkTimeoutError(url), msg |-> NoText]
  /\ UNCHANGED core

BuildLiteral(url, code, timeout) ==
  /\ neterr' = [by |-> "literal", url |-> url, code |-> code,
                rec |-> NetworkError(url, code, timeout), msg |-> NoText]
  /\ UNCHANGED core

\* the caller asks the value for its message
CallError ==
  /\ neterr.by # "none"
  /\ neterr.msg = NoText
  /\ neterr' = [neterr EXCEPT !.msg = Error(neterr.rec)]
  /\ UNCHANGED core

\* The runs that record calls explore every program: nil payloads, invalid
\* operations, either build.  A chain, a tally or a trace is followed in the
\* programs that raise typed payloads only, where the build makes no
\* difference.
Unrestricted == watch = "call"

Init ==
  /\ watch \in {"call", "chain", "count", "trace"}
  /\ gover \in IF Unrestricted THEN {"go1.18", "go1.21"} ELSE {"go1.18"}
  /\ heap = [b \in 1..MaxBlocks |-> EmptyBlock]
  /\ nblocks = 0
  /\ stack = <<>>
  /\ status = "running"
  /\ fatalv = Nil
  /\ chain = NoChain
  /\ last = NoOp
  /\ tally = NoTally
  /\ trace = NoTrace
  /\ neterr = NoNetErr
  /\ ctx = NoContexts

(* ---------------------------- panic and recover ------------------------ *)
\* the value panic(v) puts in flight: Go 1.21 replaces a nil payload
PanicValue(v) ==
  IF v = Nil /\ gover = "go1.21" THEN PanicNilError ELSE v

\* Capture with the assignment to tb.err lost
CaptureDropped(h, b, r) == h

\* Try's deferred function:  if r := recover(); r != nil { tb.err = r }
Capture(h, b, r) ==
  IF r # Nil THEN [h EXCEPT ![b].err = r] ELSE h

\* Propagate that drops a panic nobody recovers: the program goes on
PropagateDropsUncaught(h, v) ==
  IF stack = <<>>
  THEN /\ heap' = h
       /\ chain' = Kept(chain)
       /\ UNCHANGED <<status, fatalv, stack, nblocks, gover, watch>>
  ELSE /\ heap' = Capture(h, Head(stack), PanicValue(v))
       /\ stack' = Tail(stack)
       /\ chain' = NewChain(Head(stack))
       /\ UNCHANGED <<status, fatalv, nblocks, gover, watch>>

\* Propagate that hands the panic to the outermost executing Try
PropagateToOutermost(h, v) ==
  IF stack = <<>>
  THEN /\ status' = "fatal"
       /\ fatalv' = PanicValue(v)
       /\ heap' = h
       /\ chain' = NoChain
       /\ UNCHANGED <<stack, nblocks, gover, watch>>
  ELSE /\ heap' = Capture(h, stack[Len(stack)], PanicValue(v))
       /\ stack' = SubSeq(stack, 1, Len(stack) - 1)
       /\ chain' = NewChain(stack[Len(stack)])
       /\ UNCHANGED <<status, fatalv, nblocks, gover, watch>>

\* a panic with payload v leaves the current frame: the innermost executing
\* Try recovers it and returns its block; with no Try on the stack the
\* process dies.  h is the heap at the moment of the panic.
Propagate(h, v) ==
  IF stack = <<>>
  THEN /\ status' = "fatal"
       /\ fatalv' = PanicValue(v)
       /\ heap' = h
       /\ chain' = NoChain
       /\ UNCHANGED <<stack, nblocks, gover, watch>>
  ELSE /\ heap' = Capture(h, Head(stack), PanicValue(v))
       /\ stack' = Tail(stack)
       /\ chain' = NewChain(Head(stack))
       /\ UNCHANGED <<status, fatalv, nblocks, gover, watch>>

\* the block that captures a panic raised now (Absent: nobody)
Captor == IF stack = <<>> THEN Absent ELSE Head(stack)

(* ---------------------------- Try and Throw ---------------------------- *)
\* Try up to the call of fn: tb := &TryBlock{}, the recover is deferred, fn starts
Try ==
  /\ status = "running"
  /\ UNCHANGED <<neterr, ctx>>
  /\ nblocks < MaxBlocks
  /\ Len(stack) < MaxDepth
  /\ nblocks' = nblocks + 1
  /\ heap' = [heap EXCEPT ![nblocks + 1] = EmptyBlock]
  /\ stack' = <<nblocks + 1>> \o stack
  /\ last' = Seen([NoOp EXCEPT !.op = "Try", !.blk = nblocks + 1])
  /\ trace' = Settled(trace)
  /\ chain' = Kept(chain)
  /\ UNCHANGED <<gover, watch, status, fatalv, tally>>

\* fn returns: recover() yields nil, Try returns tb
TryReturn ==
  /\ status = "running"
  /\ UNCHANGED <<neterr, ctx>>
  /\ stack # <<>>
  /\ heap' = Capture(heap, Head(stack), Nil)
  /\ stack' = Tail(stack)
  /\ chain' = NewChain(Head(stack))
  /\ last' = Seen([NoOp EXCEPT !.op = "TryReturn", !.blk = Head(stack),
                          !.out = Head(stack)])
  /\ trace' = NewTrace(Head(stack))
  /\ UNCHANGED <<gover, watch, nblocks, status, fatalv, tally>>

\* Throw without the panic: the call returns to its caller
ThrowReturns(v) ==
  /\ status = "running"
  /\ UNCHANGED <<neterr, ctx>>
  /\ v = Nil => Unrestricted
  /\ last' = Seen([NoOp EXCEPT !.op = "Throw", !.raised = v])
  /\ UNCHANGED <<gover, watch, heap, nblocks, stack, status, fatalv, chain,
                 tally, trace>>

\* Throw(err): panic(err), at the caller's current position
Throw(v) ==
  /\ status = "running"
  /\ UNCHANGED <<neterr, ctx>>
  /\ v = Nil => Unrestricted
  /\ Propagate(heap, v)
  /\ last' = Seen([NoOp EXCEPT !.op = "Throw", !.done = "raised", !.raised = v,
                          !.captor = Captor, !.out = Captor])
  /\ trace' = Unwound(Settled(trace))
  /\ UNCHANGED tally

\* Fault that ends the process whatever is on the stack
FaultKillsProcess ==
  /\ status = "running"
  /\ UNCHANGED <<neterr, ctx>>
  /\ Unrestricted
  /\ status' = "fatal"
  /\ fatalv' = RuntimeFault
  /\ last' = Seen([NoOp EXCEPT !.op = "Fault", !.done = "raised",
                          !.raised = RuntimeFault])
  /\ UNCHANGED <<gover, watch, heap, nblocks, stack, chain, tally, trace>>

\* an invalid operation in the caller's code (index out of range, ...): the
\* runtime panics with a runtime error, which unwinds like any other panic
Fault ==
  /\ status = "running"
  /\ UNCHANGED <<neterr, ctx>>
  /\ Unrestricted
  /\ Propagate(heap, RuntimeFault)
  /\ last' = Seen([NoOp EXCEPT !.op = "Fault", !.done = "raised",
                          !.raised = RuntimeFault, !.captor = Captor,
                          !.out = Captor])
  /\ trace' = Unwound(Settled(trace))
  /\ UNCHANGED tally

(* ---------------------------- dispatch ------------------------------- *)
\* Matches without the test of tb.handled
MatchesIgnoresHandled(blk, T) ==
  /\ blk.err # Nil
  /\ Assertable(blk.err, T)

\* Matches comparing the dynamic type with T instead of asserting to T
MatchesExactType(blk, T) ==
  /\ blk.err # Nil
  /\ ~blk.handled
  /\ blk.err.type = T

\* Matches without the type assertion
MatchesAnyType(blk, T) ==
  /\ blk.err # Nil
  /\ ~blk.handled

\* the guard of Catch, CatchWithReturn:  tb.err != nil && !tb.handled, then
\* the type assertion  tb.err.(T)
Matches(blk, T) ==
  /\ blk.err # Nil
  /\ ~blk.handled
  /\ Assertable(blk.err, T)

\* Pending without the test of tb.handled
PendingIgnoresHandled(blk) == blk.err # Nil

\* Pending without the test of tb.err
PendingIgnoresErr(blk) == ~blk.handled

\* the guard of CatchAny:  tb.err != nil && !tb.handled
Pending(blk) ==
  /\ blk.err # Nil
  /\ ~blk.handled

\* the chain followed is  Catch[T1], ..., Catch[Tn], CatchAny  on the block
\* the last Try returned: a Catch or CatchAny on that block adds its stage,
\* CatchAny ends the chain; a CatchWithReturn or a Finally on the block
\* abandons it
Following(b) == b # Absent /\ b = chain.blk /\ chain.open

\* block b is the one whose chain is being traced, and the chain is going on
Traced(b) == b # Absent /\ b = trace.blk /\ trace.open

\* the trace after a dispatch call on b: one more stage; the handler's event
\* when it was invoked; a handler that raises leaves the chain
Dispatched(b, fired, k) ==
  IF Traced(b)
  THEN [trace EXCEPT !.stages = @ + 1,
                     !.events = IF fired
                                THEN Append(@, Event("handler", trace.stages + 1, k))
                                ELSE @,
                     !.open = ~(fired /\ k = "raise")]
  ELSE Settled(trace)

\* the trace after Finally on b with outcome o: the steps of the call in
\* their order, then the panic that leaves it, if any; the chain is over
Finished(b, o, k) ==
  IF Traced(b)
  THEN [trace EXCEPT
          !.events = @ \o [i \in 1..Len(o.events) |->
                             Event(o.events[i], 0,
                                   IF o.events[i] = "cleanup" THEN k ELSE "-")]
                       \o (IF o.exit.panic THEN <<Event("propagate", 0, "-")>>
                           ELSE <<>>),
          !.open = FALSE]
  ELSE Settled(trace)

Staged(b, op, T, n) ==
  IF ~Following(b) THEN Kept(chain)
  ELSE IF op = "CatchWithReturn" THEN NoChain
  ELSE [chain EXCEPT !.stages = Append(@, [op |-> op, T |-> T, calls |-> n]),
                     !.open = (op = "Catch")]

\* the chain log is bounded
StageRoom(b) ==
  /\ Following(b) => Len(chain.stages) < MaxStages
  /\ Traced(b) => trace.stages < MaxStages

\* DispatchAbsent with  return tb : the nil block is handed back
DispatchAbsentReturnsNil(op, T) ==
  /\ last' = Seen([NoOp EXCEPT !.op = op, !.T = T])
  /\ UNCHANGED <<gover, watch, heap, nblocks, stack, status, fatalv, chain,
                 tally, trace>>

\* a dispatch call on the nil block: return &TryBlock{}
DispatchAbsent(op, T) ==
  /\ nblocks < MaxBlocks
  /\ nblocks' = nblocks + 1
  /\ heap' = [heap EXCEPT ![nblocks + 1] = EmptyBlock]
  /\ last' = Seen([NoOp EXCEPT !.op = op, !.T = T, !.out = nblocks + 1])
  /\ trace' = Settled(trace)
  /\ chain' = Kept(chain)
  /\ UNCHANGED <<gover, watch, stack, status, fatalv, tally>>

\* DispatchSkip that marks the block handled all the same
DispatchSkipMarks(b, op, T) ==
  /\ last' = Seen([NoOp EXCEPT !.op = op, !.blk = b, !.T = T, !.pre = heap[b],
                          !.out = b])
  /\ chain' = Staged(b, op, T, 0)
  /\ heap' = [heap EXCEPT ![b].handled = TRUE]
  /\ trace' = Dispatched(b, FALSE, "-")
  /\ UNCHANGED <<gover, watch, nblocks, stack, status, fatalv, tally>>

\* a dispatch call whose guard is false: return tb
DispatchSkip(b, op, T) ==
  /\ last' = Seen([NoOp EXCEPT !.op = op, !.blk = b, !.T = T, !.pre = heap[b],
                          !.out = b])
  /\ chain' = Staged(b, op, T, 0)
  /\ trace' = Dispatched(b, FALSE, "-")
  /\ UNCHANGED <<gover, watch, heap, nblocks, stack, status, fatalv, tally>>

\* DispatchFire without the assignment  tb.handled = true
DispatchFireUnmarked(b, op, T, hb) ==
  LET rec == [NoOp EXCEPT !.op = op, !.blk = b, !.T = T, !.pre = heap[b],
                          !.calls = 1, !.arg = heap[b].err]
  IN IF hb.k = "ret"
     THEN /\ chain' = Staged(b, op, T, 1)
          /\ last' = Seen([rec EXCEPT !.out = b, !.result = hb.v,
                                      !.hret = hb.v])
          /\ tally' = Counted(b, "ret")
          /\ trace' = Dispatched(b, TRUE, "ret")
          /\ UNCHANGED <<gover, watch, heap, nblocks, stack, status, fatalv>>
     ELSE /\ Propagate(heap, hb.v)
          /\ last' = Seen([rec EXCEPT !.done = "raised", !.raised = hb.v,
                                 !.captor = Captor])
          /\ tally' = Counted(b, "raise")
          /\ trace' = Unwound(Dispatched(b, TRUE, "raise"))

\* DispatchFire that clears the payload of the block it marks:  tb.err = nil
DispatchFireClearsErr(b, op, T, hb) ==
  LET rec == [NoOp EXCEPT !.op = op, !.blk = b, !.T = T, !.pre = heap[b],
                          !.calls = 1, !.arg = heap[b].err]
  IN IF hb.k = "ret"
     THEN /\ heap' = [heap EXCEPT ![b] = [err |-> Nil, handled |-> TRUE]]
          /\ chain' = Staged(b, op, T, 1)
          /\ last' = Seen([rec EXCEPT !.out = b, !.result = hb.v,
                                      !.hret = hb.v])
          /\ tally' = Counted(b, "ret")
          /\ trace' = Dispatched(b, TRUE, "ret")
          /\ UNCHANGED <<gover, watch, nblocks, stack, status, fatalv>>
     ELSE /\ Propagate(heap, hb.v)
          /\ last' = Seen([rec EXCEPT !.done = "raised", !.raised = hb.v,
                                 !.captor = Captor])
          /\ tally' = Counted(b, "raise")
          /\ trace' = Unwound(Dispatched(b, TRUE, "raise"))

\* DispatchFire with  tb.handled = true  before the call of the handler
DispatchFireMarksFirst(b, op, T, hb) ==
  LET rec == [NoOp EXCEPT !.op = op, !.blk = b, !.T = T, !.pre = heap[b],
                          !.calls = 1, !.arg = heap[b].err]
      marked == [heap EXCEPT ![b].handled = TRUE]
  IN IF hb.k = "ret"
     THEN /\ heap' = marked
          /\ chain' = Staged(b, op, T, 1)
          /\ last' = Seen([rec EXCEPT !.out = b, !.result = hb.v,
                                      !.hret = hb.v])
          /\ tally' = Counted(b, "ret")
          /\ trace' = Dispatched(b, TRUE, "ret")
          /\ UNCHANGED <<gover, watch, nblocks, stack, status, fatalv>>
     ELSE /\ Propagate(marked, hb.v)
          /\ last' = Seen([rec EXCEPT !.done = "raised", !.raised = hb.v,
                                 !.captor = Captor])
          /\ tally' = Counted(b, "raise")
          /\ trace' = Unwound(Dispatched(b, TRUE, "raise"))

\* DispatchFire that drops the handler's value and returns nil
DispatchFireNoResult(b, op, T, hb) ==
  LET rec == [NoOp EXCEPT !.op = op, !.blk = b, !.T = T, !.pre = heap[b],
                          !.calls = 1, !.arg = heap[b].err]
  IN IF hb.k = "ret"
     THEN /\ heap' = [heap EXCEPT ![b].handled = TRUE]
          /\ chain' = Staged(b, op, T, 1)
          /\ last' = Seen([rec EXCEPT !.out = b, !.hret = hb.v])
          /\ tally' = Counted(b, "ret")
          /\ trace' = Dispatched(b, TRUE, "ret")
          /\ UNCHANGED <<gover, watch, nblocks, stack, status, fatalv>>
     ELSE /\ Propagate(heap, hb.v)
          /\ last' = Seen([rec EXCEPT !.done = "raised", !.raised = hb.v,
                                 !.captor = Captor])
          /\ tally' = Counted(b, "raise")
          /\ trace' = Unwound(Dispatched(b, TRUE, "raise"))

\* DispatchFire that marks and returns a copy of the block, when the heap has
\* room for one:  c := *tb; c.handled = true; return &c
DispatchFireReturnsCopy(b, op, T, hb) ==
  LET rec == [NoOp EXCEPT !.op = op, !.blk = b, !.T = T, !.pre = heap[b],
                          !.calls = 1, !.arg = heap[b].err]
      c == IF nblocks < MaxBlocks THEN nblocks + 1 ELSE b
  IN IF hb.k = "ret"
     THEN /\ heap' = [heap EXCEPT ![c] = [err |-> heap[b].err, handled |-> TRUE]]
          /\ nblocks' = IF c = b THEN nblocks ELSE nblocks + 1
          /\ chain' = Staged(b, op, T, 1)
          /\ last' = Seen([rec EXCEPT !.out = c, !.result = hb.v,
                                      !.hret = hb.v])
          /\ tally' = Counted(b, "ret")
          /\ trace' = Dispatched(b, TRUE, "ret")
          /\ UNCHANGED <<gover, watch, stack, status, fatalv>>
     ELSE /\ Propagate(heap, hb.v)
          /\ last' = Seen([rec EXCEPT !.done = "raised", !.raised = hb.v,
                                 !.captor = Captor])
          /\ tally' = Counted(b, "raise")
          /\ trace' = Unwound(Dispatched(b, TRUE, "raise"))

\* a dispatch call whose guard is true: handler(err), then tb.handled = true
\* and return; a handler that raises leaves the call before the assignment
DispatchFire(b, op, T, hb) ==
  LET rec == [NoOp EXCEPT !.op = op, !.blk = b, !.T = T, !.pre = heap[b],
                          !.calls = 1, !.arg = heap[b].err]
  IN IF hb.k = "ret"
     THEN /\ heap' = [heap EXCEPT ![b].handled = TRUE]
          /\ chain' = Staged(b, op, T, 1)
          /\ last' = Seen([rec EXCEPT !.out = b, !.result = hb.v,
                                      !.hret = hb.v])
          /\ tally' = Counted(b, "ret")
          /\ trace' = Dispatched(b, TRUE, "ret")
          /\ UNCHANGED <<gover, watch, nblocks, stack, status, fatalv>>
     ELSE /\ Propagate(heap, hb.v)
          /\ last' = Seen([rec EXCEPT !.done = "raised", !.raised = hb.v,
                                 !.captor = Captor])
          /\ tally' = Counted(b, "raise")
          /\ trace' = Unwound(Dispatched(b, TRUE, "raise"))

\* Catch[T](tb, handler)
Catch(b, T, hb) ==
  /\ status = "running"
  /\ UNCHANGED <<neterr, ctx>>
  /\ StageRoom(b)
  /\ IF b = Absent THEN DispatchAbsent("Catch", T)
     ELSE IF Matches(heap[b], T) THEN DispatchFire(b, "Catch", T, hb)
     ELSE DispatchSkip(b, "Catch", T)

\* CatchWithReturn that returns without  tb.handled = true
CatchWithReturnUnmarked(b, T, hb) ==
  /\ status = "running"
  /\ UNCHANGED <<neterr, ctx>>
  /\ StageRoom(b)
  /\ IF b = Absent THEN DispatchAbsent("CatchWithReturn", T)
     ELSE IF Matches(heap[b], T)
          THEN DispatchFireUnmarked(b, "CatchWithReturn", T, hb)
     ELSE DispatchSkip(b, "CatchWithReturn", T)

\* CatchWithReturn[T](tb, handler)
CatchWithReturn(b, T, hb) ==
  /\ status = "running"
  /\ UNCHANGED <<neterr, ctx>>
  /\ StageRoom(b)
  /\ IF b = Absent THEN DispatchAbsent("CatchWithReturn", T)
     ELSE IF Matches(heap[b], T) THEN DispatchFire(b, "CatchWithReturn", T, hb)
     ELSE DispatchSkip(b, "CatchWithReturn", T)

\* tb.CatchAny(handler)
CatchAny(b, hb) ==
  /\ status = "running"
  /\ UNCHANGED <<neterr, ctx>>
  /\ StageRoom(b)
  /\ IF b = Absent THEN DispatchAbsent("CatchAny", "-")
     ELSE IF Pending(heap[b]) THEN DispatchFire(b, "CatchAny", "-", hb)
     ELSE DispatchSkip(b, "CatchAny", "-")

(* ---------------------------- Finally ---------------------------------- *)
\* Rethrows without the test of tb.handled
RethrowsIgnoresHandled(b) == b # Absent /\ heap[b].err # Nil

\* the guard of the re-throw in Finally:  tb.err != nil && !tb.handled
Rethrows(b) == b # Absent /\ Pending(heap[b])

NoPanic == [panic |-> FALSE, v |-> Nil]

\* Thrown with the payload wrapped in a message:  panic(fmt.Sprint(tb.err))
ThrownAsMessage(b) ==
  IF Rethrows(b)
  THEN [panic |-> TRUE, v |-> [type |-> "string", val |-> heap[b].err.val]]
  ELSE NoPanic

\* the panic in flight when the body of Finally is left:  panic(tb.err)
\* under the guard; none on the nil block, whose branch returns before it
Thrown(b) ==
  IF Rethrows(b) THEN [panic |-> TRUE, v |-> heap[b].err] ELSE NoPanic

\* AfterCleanup where a panic in fn does not replace the one in flight
AfterCleanupKeepsFirst(p, cb) ==
  IF cb.k = "raise" /\ ~p.panic THEN [panic |-> TRUE, v |-> cb.v]
  ELSE IF cb.k = "recover" THEN NoPanic
  ELSE p

\* AfterCleanup where a recover() in fn does not stop the panic in flight
AfterCleanupRecoverIgnored(p, cb) ==
  IF cb.k = "raise" THEN [panic |-> TRUE, v |-> cb.v]
  ELSE p

\* fn runs with the panic p in flight (or none): a panic in fn replaces p,
\* a recover() in fn stops p, and a fn that returns leaves p as it is
AfterCleanup(p, cb) ==
  IF cb.k = "raise" THEN [panic |-> TRUE, v |-> cb.v]
  ELSE IF cb.k = "recover" THEN NoPanic
  ELSE p

\* FinallyOutcome with fn() called after the re-throw instead of deferred
FinallyOutcomeNotDeferred(b, cb) ==
  IF Thrown(b).panic
  THEN [cleanups |-> 0, exit |-> Thrown(b), events |-> <<"panic">>]
  ELSE [cleanups |-> 1, exit |-> AfterCleanup(NoPanic, cb),
        events |-> <<"cleanup">>]

\* FinallyOutcome with  if tb == nil { return }  for the nil block
FinallyOutcomeSkipsAbsent(b, cb) ==
  IF b = Absent
  THEN [cleanups |-> 0, exit |-> NoPanic, events |-> <<>>]
  ELSE [cleanups |-> 1, exit |-> AfterCleanup(Thrown(b), cb),
        events |-> IF Thrown(b).panic THEN <<"panic", "cleanup">>
                   ELSE <<"cleanup">>]

\* what one call of Finally does: how often fn runs, the panic that leaves
\* the call, and the order of its steps.  On the nil block fn() is called and
\* Finally returns; otherwise fn is deferred, so it runs when the body has
\* returned, or when the body has called panic(tb.err), with that panic in
\* flight.
FinallyOutcome(b, cb) ==
  [cleanups |-> 1, exit |-> AfterCleanup(Thrown(b), cb),
   events |-> IF Thrown(b).panic THEN <<"panic", "cleanup">>
              ELSE <<"cleanup">>]

\* tb.Finally(fn)
Finally(b, cb) ==
  LET o == FinallyOutcome(b, cb)
      rec == [NoOp EXCEPT !.op = "Finally", !.blk = b,
                !.pre = IF b = Absent THEN EmptyBlock ELSE heap[b],
                !.cleanups = o.cleanups, !.cb = cb.k, !.events = o.events,
                !.cbv = cb.v]
  IN /\ status = "running"
     /\ UNCHANGED <<neterr, ctx>>
     /\ UNCHANGED tally
     /\ IF o.exit.panic
        THEN /\ Propagate(heap, o.exit.v)
             /\ last' = Seen([rec EXCEPT !.done = "raised", !.raised = o.exit.v,
                                    !.captor = Captor])
             /\ trace' = Unwound(Finished(b, o, cb.k))
        ELSE /\ last' = Seen(rec)
             /\ trace' = Finished(b, o, cb.k)
             /\ chain' = IF Following(b) THEN NoChain ELSE Kept(chain)
             /\ UNCHANGED <<gover, heap, nblocks, stack, status, fatalv, watch>>

\* the handlers worth telling apart in a call: all of H when the call invokes
\* its handler, one of them when it does not
Offered(invoked, H) == IF invoked THEN H ELSE {Ret(Nil)}

Next ==
  \/ Try
  \/ TryReturn
  \/ \E v \in Values : Throw(v)
  \/ Fault
  \/ \E b \in Refs, T \in DeclTypes :
        \E hb \in Offered(b # Absent /\ Matches(heap[b], T), Handlers) :
           Catch(b, T, hb)
  \/ \E b \in Refs, T \in DeclTypes :
        \E hb \in Offered(b # Absent /\ Matches(heap[b], T), ReturningHandlers) :
           CatchWithReturn(b, T, hb)
  \/ \E b \in Refs :
        \E hb \in Offered(b # Absent /\ Pending(heap[b]), Handlers) :
           CatchAny(b, hb)
  \/ \E b \in Refs, cb \in Cleanups : Finally(b, cb)

Spec == Init /\ [][Next]_vars

\* a program that only builds NetworkError values and reads their messages
ErrInit ==
  /\ watch = "call"
  /\ gover = "go1.18"
  /\ heap = [b \in 1..MaxBlocks |-> EmptyBlock]
  /\ nblocks = 0
  /\ stack = <<>>
  /\ status = "running"
  /\ fatalv = Nil
  /\ chain = NoChain
  /\ last = NoOp
  /\ tally = NoTally
  /\ trace = NoTrace
  /\ neterr = NoNetErr
  /\ ctx = NoContexts

ErrNext ==
  \/ \E url \in URLs, code \in StatusCodes : BuildNetworkError(url, code)
  \/ \E url \in URLs : BuildNetworkTimeoutError(url)
  \/ \E url \in URLs, code \in StatusCodes, timeout \in BOOLEAN :
        BuildLiteral(url, code, timeout)
  \/ CallError

ErrSpec == ErrInit /\ [][ErrNext]_vars

(* ---------------------------- examples/main_original.go ---------------- *)
\* what the computation handed to a Try does, when it nests no Try: it
\* returns, it raises a payload, or it performs an invalid operation
Computations == {Ret(Nil)} \cup {Raises(v) : v \in Values \cup {RuntimeFault}}

\* Try of examples/main_original.go, the whole call.  The recover is deferred
\* in Try itself and the result has no name: when fn panics, the deferred
\* function recovers (and writes tb.err when the value is not nil),
\* return tb  is never executed and Try returns the zero value of its result
\* type, the nil *TryBlock.
OriginalTry(c) ==
  LET b == nblocks + 1
      r == IF c.k = "raise" THEN PanicValue(c.v) ELSE Nil
  IN /\ status = "running"
     /\ UNCHANGED <<neterr, ctx>>
     /\ stack = <<>>
     /\ nblocks < MaxBlocks
     /\ nblocks' = b
     /\ heap' = Capture([heap EXCEPT ![b] = EmptyBlock], b, r)
     /\ last' = Seen([NoOp EXCEPT !.op = "OriginalTry", !.blk = b,
                             !.comp = c.k, !.raised = c.v,
                             !.out = IF c.k = "raise" THEN Absent ELSE b])
     /\ UNCHANGED <<gover, watch, stack, status, fatalv, chain, tally, trace>>

\* the calls that take and return a *TryBlock
IsDispatchOp(op) == op \in {"Catch", "CatchWithReturn", "CatchAny"}

\* the last call returned a *TryBlock, which the caller's chain goes on with:
\* tb = Catch[T](tb, ...),  tb = tb.CatchAny(...),  tb.Finally(...)
ChainGoesOn ==
  /\ last.done = "returned"
  /\ last.op = "OriginalTry" \/ IsDispatchOp(last.op)

\* the programs of examples/main_original.go: a Try, then a chain on the
\* reference it returned.  Catch, CatchWithReturn, CatchAny and Finally of
\* the example are the library's, line for line.
OrigInit ==
  /\ watch = "call"
  /\ gover \in {"go1.18", "go1.21"}
  /\ heap = [b \in 1..MaxBlocks |-> EmptyBlock]
  /\ nblocks = 0
  /\ stack = <<>>
  /\ status = "running"
  /\ fatalv = Nil
  /\ chain = NoChain
  /\ last = NoOp
  /\ tally = NoTally
  /\ trace = NoTrace
  /\ neterr = NoNetErr
  /\ ctx = NoContexts

OrigNext ==
  \/ \E c \in Computations : OriginalTry(c)
  \/ /\ ChainGoesOn
     /\ \E T \in DeclTypes :
           \E hb \in Offered(last.out # Absent /\ Matches(heap[last.out], T),
                              Handlers) :
              Catch(last.out, T, hb)
  \/ /\ ChainGoesOn
     /\ \E T \in DeclTypes :
           \E hb \in Offered(last.out # Absent /\ Matches(heap[last.out], T),
                              ReturningHandlers) :
              CatchWithReturn(last.out, T, hb)
  \/ /\ ChainGoesOn
     /\ \E hb \in Offered(last.out # Absent /\ Pending(heap[last.out]),
                           Handlers) :
           CatchAny(last.out, hb)
  \/ /\ ChainGoesOn
     /\ \E cb \in Cleanups : Finally(last.out, cb)

OrigSpec == OrigInit /\ [][OrigNext]_vars

(* ---------------------------- a block shared by goroutines ------------- *)
\* the dispatch operations and declared types a goroutine may call
Stages ==
  {[op |-> op, T |-> T] : op \in {"Catch", "CatchWithReturn"}, T \in DeclTypes}
    \cup {[op |-> "CatchAny", T |-> "-"]}

\* goroutine g calls a dispatch operation on block b:  if tb == nil  is false
Enter(g, op, T, b) ==
  /\ status = "running"
  /\ ctx[g].pc = "idle"
  /\ ctx' = [ctx EXCEPT ![g] = [Idle EXCEPT !.pc = "check", !.op = op,
                                             !.T = T, !.blk = b]]
  /\ UNCHANGED <<gover, heap, nblocks, stack, status, fatalv, watch, chain,
                 last, tally, trace, neterr>>

\* what a read of tb.handled may return: the package has no lock, channel or
\* atomic, so a write by another goroutine is not ordered before the read,
\* which returns the value in memory or the false the block was created with
Observed(b) == {heap[b].handled, FALSE}

\* the guard of the call, on the block as goroutine g reads it
Check(g) ==
  /\ status = "running"
  /\ ctx[g].pc = "check"
  /\ \E seen \in Observed(ctx[g].blk) :
        LET blk == [heap[ctx[g].blk] EXCEPT !.handled = seen]
            ok  == IF ctx[g].op = "CatchAny" THEN Pending(blk)
                   ELSE Matches(blk, ctx[g].T)
        IN ctx' = [ctx EXCEPT ![g].pc = IF ok THEN "handler" ELSE "done",
                              ![g].fired = ok,
                              ![g].late = ok /\ heap[ctx[g].blk].handled]
  /\ UNCHANGED <<gover, heap, nblocks, stack, status, fatalv, watch, chain,
                 last, tally, trace, neterr>>

\* Handle that tests tb.handled once more and does not call the handler when
\* another goroutine has set it
HandleRechecks(g, hb) ==
  /\ status = "running"
  /\ ctx[g].pc = "handler"
  /\ IF heap[ctx[g].blk].handled
     THEN /\ ctx' = [ctx EXCEPT ![g].pc = "done"]
          /\ UNCHANGED <<status, fatalv, tally>>
     ELSE /\ tally' = Counted(ctx[g].blk, hb.k)
          /\ IF hb.k = "ret"
             THEN /\ ctx' = [ctx EXCEPT ![g].pc = "mark"]
                  /\ UNCHANGED <<status, fatalv>>
             ELSE /\ ctx' = [ctx EXCEPT ![g].pc = "raised"]
                  /\ status' = "fatal"
                  /\ fatalv' = hb.v
  /\ UNCHANGED <<gover, heap, nblocks, stack, watch, chain, last, trace,
                 neterr>>

\* handler(err) in goroutine g: the handler returns, or raises, and a panic
\* in a goroutine with no Try executing ends the process
Handle(g, hb) ==
  /\ status = "running"
  /\ ctx[g].pc = "handler"
  /\ tally' = Counted(ctx[g].blk, hb.k)
  /\ IF hb.k = "ret"
     THEN /\ ctx' = [ctx EXCEPT ![g].pc = "mark"]
          /\ UNCHANGED <<status, fatalv>>
     ELSE /\ ctx' = [ctx EXCEPT ![g].pc = "raised"]
          /\ status' = "fatal"
          /\ fatalv' = hb.v
  /\ UNCHANGED <<gover, heap, nblocks, stack, watch, chain, last, trace,
                 neterr>>

\* tb.handled = true, and the call returns tb
Mark(g) ==
  /\ status = "running"
  /\ ctx[g].pc = "mark"
  /\ heap' = [heap EXCEPT ![ctx[g].blk].handled = TRUE]
  /\ ctx' = [ctx EXCEPT ![g].pc = "done"]
  /\ UNCHANGED <<gover, nblocks, stack, status, fatalv, watch, chain, last,
                 tally, trace, neterr>>

\* a program that has run  tb := Try(func() { Throw(v) })  and hands tb to
\* its goroutines, each of which makes one dispatch call on it
ConcInit ==
  /\ watch = "count"
  /\ gover = "go1.18"
  /\ \E v \in Payloads :
        heap = [b \in 1..MaxBlocks |->
                  IF b = 1 THEN [err |-> v, handled |-> FALSE] ELSE EmptyBlock]
  /\ nblocks = 1
  /\ stack = <<>>
  /\ status = "running"
  /\ fatalv = Nil
  /\ chain = NoChain
  /\ last = NoOp
  /\ tally = NoTally
  /\ trace = NoTrace
  /\ neterr = NoNetErr
  /\ ctx = NoContexts

ConcNext ==
  \/ \E g \in Contexts, st \in Stages, b \in Returned : Enter(g, st.op, st.T, b)
  \/ \E g \in Contexts : Check(g)
  \/ \E g \in Contexts, hb \in Handlers : Handle(g, hb)
  \/ \E g \in Contexts : Mark(g)

ConcSpec == ConcInit /\ [][ConcNext]_vars

(* ======================= properties ==================================== *)
IsDispatch(op) == op \in {"Catch", "CatchWithReturn", "CatchAny"}

IsTyped(op) == op \in {"Catch", "CatchWithReturn"}

Unhandled(blk) == blk.err # Nil /\ ~blk.handled

VE == [type |-> "ValidationError", val |-> 1]

S1 == [type |-> "string", val |-> 1]

S2 == [type |-> "string", val |-> 2]

\* C1: whenever a payload v that has a runtime type is raised while a Try
\* computation is executing, the innermost such Try returns to its caller:
\* the process keeps running, the Try calls around it are still executing
\* and have captured nothing, and the returned block holds exactly v with
\* handled false.
C1_TryCapturesRaise ==
  (last.done = "raised" /\ last.raised # Nil /\ last.captor # Absent) =>
     /\ status = "running"
     /\ last.captor \in Returned
     /\ heap[last.captor] = [err |-> last.raised, handled |-> FALSE]
     /\ \A i \in 1..Len(stack) : heap[stack[i]] = EmptyBlock

\* a Throw of a ValidationError inside a nested Try, captured by the inner Try
C1_Witness ==
  /\ last.op = "Throw"
  /\ last.raised = VE
  /\ last.captor # Absent
  /\ stack # <<>>
  /\ heap[last.captor].err = VE

\* the stage of a chain takes payload v: CatchAny, or a Catch whose type
\* assertion on v succeeds
StageTakes(st, v) == st.op = "CatchAny" \/ Assertable(v, st.T)

\* the same with "declared type equals the runtime type"
StageTakesExact(st, v) == st.op = "CatchAny" \/ st.T = v.type

\* C2 (as amended): in a chain Catch[T1], ..., Catch[Tn], CatchAny applied
\* in that order to the block Try returned for a raised payload v, a stage
\* invokes its handler once if it is the first stage in call order that v is
\* assertable to (CatchAny takes every v), and every other stage invokes
\* nothing; so the complete chain invokes exactly one handler, exactly once.
C2_FirstAssertableStageFires ==
  (chain.blk # Absent /\ heap[chain.blk].err # Nil) =>
     LET s == chain.stages
         v == heap[chain.blk].err
         fired == {i \in 1..Len(s) : s[i].calls > 0}
     IN /\ \A i \in 1..Len(s) :
             s[i].calls = IF /\ StageTakes(s[i], v)
                             /\ \A j \in 1..(i - 1) : ~StageTakes(s[j], v)
                          THEN 1 ELSE 0
        /\ (~chain.open /\ s # <<>>) => Cardinality(fired) = 1

\* C2 as stated: the stage that fires is the first Catch whose declared type
\* equals the runtime type of v, or CatchAny if there is none.
C2_FirstEqualTypeStageFires ==
  (chain.blk # Absent /\ heap[chain.blk].err \in Payloads) =>
     LET s == chain.stages
         v == heap[chain.blk].err
     IN \A i \in 1..Len(s) :
           s[i].calls = IF /\ StageTakesExact(s[i], v)
                           /\ \A j \in 1..(i - 1) : ~StageTakesExact(s[j], v)
                        THEN 1 ELSE 0

\* the chain Catch[string], Catch[ValidationError], CatchAny on a raised
\* ValidationError: the second stage fired, the others did not
C2_Witness ==
  /\ chain.blk # Absent
  /\ ~chain.open
  /\ heap[chain.blk].err = VE
  /\ Len(chain.stages) = 3
  /\ chain.stages[1] = [op |-> "Catch", T |-> "string", calls |-> 0]
  /\ chain.stages[2] = [op |-> "Catch", T |-> "ValidationError", calls |-> 1]
  /\ chain.stages[3] = [op |-> "CatchAny", T |-> "-", calls |-> 0]

\* C3: Catch[T] on a block Unhandled(v) with v of runtime type T invokes the
\* handler exactly once, with v itself, within the call; when the call
\* returns it returns that block with handled true.
C3_CatchMatchInvokesOnce ==
  (/\ last.op = "Catch"
   /\ last.blk # Absent
   /\ Unhandled(last.pre)
   /\ last.pre.err.type = last.T) =>
     /\ last.calls = 1
     /\ last.arg = last.pre.err
     /\ last.done = "returned" =>
          /\ last.out = last.blk
          /\ heap[last.blk] = [err |-> last.pre.err, handled |-> TRUE]

\* Catch[string] on Unhandled("2"): the handler got "2", the block is handled
C3_Witness ==
  /\ last.op = "Catch"
  /\ last.T = "string"
  /\ last.pre = [err |-> S2, handled |-> FALSE]
  /\ last.calls = 1
  /\ last.arg = S2
  /\ last.done = "returned"
  /\ heap[last.blk].handled

\* C4 as stated: Catch[T] and CatchWithReturn[T] invoke the handler only when
\* the runtime type of the payload equals T.
C4_InvokedOnlyOnEqualType ==
  (IsTyped(last.op) /\ last.calls > 0 /\ last.pre.err \in Payloads) =>
     last.pre.err.type = last.T

\* C4 (as amended): Catch[T] and CatchWithReturn[T] invoke the handler only
\* when the type assertion of the payload to T succeeds: for a concrete T
\* only when the runtime type equals T, for an interface T only when the
\* runtime type implements T; when the assertion fails the block stays
\* Unhandled for the next stage.
C4_InvokedOnlyWhenAssertable ==
  (IsTyped(last.op) /\ last.blk # Absent) =>
     /\ last.calls > 0 =>
          /\ Unhandled(last.pre)
          /\ IF last.T \in InterfaceTypes
             THEN Implements(last.pre.err.type, last.T)
             ELSE last.pre.err.type = last.T
     /\ (Unhandled(last.pre) /\ last.calls = 0) => Unhandled(heap[last.blk])

\* Catch[error] invoked for a ValidationError, whose type implements error
C4_Witness ==
  /\ IsTyped(last.op)
  /\ last.T = "error"
  /\ last.pre = [err |-> VE, handled |-> FALSE]
  /\ last.calls = 1
  /\ last.arg = VE

\* C5: Catch[T] invokes its handler whenever the payload of an Unhandled
\* block is assertable to T; in a chain the payload goes to the first Catch
\* in call order it is assertable to, and every Catch after that one is a
\* no-op, also the one declared for the payload's own type.
C5_FirstAssertableCatchTakes ==
  /\ (/\ last.op = "Catch"
      /\ last.blk # Absent
      /\ Unhandled(last.pre)
      /\ Assertable(last.pre.err, last.T)) =>
        (last.calls = 1 /\ last.arg = last.pre.err)
  /\ (chain.blk # Absent /\ heap[chain.blk].err # Nil) =>
        LET s == chain.stages
            v == heap[chain.blk].err
            takes(i) == s[i].op = "Catch" /\ Assertable(v, s[i].T)
        IN \A i \in 1..Len(s) :
              takes(i) =>
                 /\ (\A h \in 1..(i - 1) : ~takes(h)) => s[i].calls = 1
                 /\ \A j \in (i + 1)..Len(s) : s[j].calls = 0

\* Catch[error] placed before Catch[ValidationError] took the ValidationError
C5_Witness ==
  /\ chain.blk # Absent
  /\ heap[chain.blk].err = VE
  /\ Len(chain.stages) >= 2
  /\ chain.stages[1] = [op |-> "Catch", T |-> "error", calls |-> 1]
  /\ chain.stages[2] = [op |-> "Catch", T |-> "ValidationError", calls |-> 0]

\* C6: Catch[T] or CatchWithReturn[T] on a block Unhandled(v) whose payload
\* is not assertable to T invokes no handler, raises nothing, and returns
\* the same block with the same payload and handled still false
\* (CatchWithReturn with the nil result).
C6_MissChangesNothing ==
  (/\ IsTyped(last.op)
   /\ last.blk # Absent
   /\ Unhandled(last.pre)
   /\ ~Assertable(last.pre.err, last.T)) =>
     /\ last.calls = 0
     /\ last.done = "returned"
     /\ last.raised = Nil
     /\ last.result = Nil
     /\ status = "running"
     /\ last.out = last.blk
     /\ heap[last.blk] = last.pre

\* Catch[string] on a block holding a ValidationError
C6_Witness ==
  /\ last.op = "Catch"
  /\ last.T = "string"
  /\ last.pre = [err |-> VE, handled |-> FALSE]
  /\ last.calls = 0
  /\ heap[last.blk] = last.pre

\* C7: on a Handled block every Catch, CatchWithReturn and CatchAny call, for
\* every T, invokes no handler and returns the block as it was; so the block
\* is still Handled for the next call of any sequence.
C7_HandledIsFinal ==
  (IsDispatch(last.op) /\ last.blk # Absent /\ last.pre.handled) =>
     /\ last.calls = 0
     /\ last.done = "returned"
     /\ last.result = Nil
     /\ last.out = last.blk
     /\ heap[last.blk] = last.pre

\* a Catch for the payload's own type on a block that is already handled
C7_Witness ==
  /\ last.op = "Catch"
  /\ last.pre = [err |-> S1, handled |-> TRUE]
  /\ last.T = "string"
  /\ last.calls = 0
  /\ heap[last.blk] = last.pre

\* C8: CatchAny on a block Unhandled(v) invokes its handler exactly once with
\* v, whatever the type of v, and returns the block with handled true; on a
\* Clean or Handled block it invokes nothing and leaves the block unchanged.
C8_CatchAnyTakesPending ==
  (last.op = "CatchAny" /\ last.blk # Absent) =>
     IF Unhandled(last.pre)
     THEN /\ last.calls = 1
          /\ last.arg = last.pre.err
          /\ last.done = "returned" =>
               /\ last.out = last.blk
               /\ heap[last.blk] = [err |-> last.pre.err, handled |-> TRUE]
     ELSE /\ last.calls = 0
          /\ last.done = "returned"
          /\ last.out = last.blk
          /\ heap[last.blk] = last.pre

\* CatchAny took a ValidationError
C8_Witness ==
  /\ last.op = "CatchAny"
  /\ last.pre = [err |-> VE, handled |-> FALSE]
  /\ last.calls = 1
  /\ last.arg = VE
  /\ heap[last.blk] = [err |-> VE, handled |-> TRUE]

\* C9: every call of Finally on a non-nil block runs the cleanup exactly
\* once, whether the block is Clean, Handled or Unhandled, and also when the
\* call goes on to re-raise.
C9_CleanupRunsOnce ==
  (last.op = "Finally" /\ last.blk # Absent) => last.cleanups = 1

\* a Finally that re-raised the payload of its block, after one cleanup
C9_Witness ==
  /\ last.op = "Finally"
  /\ last.blk # Absent
  /\ Unhandled(last.pre)
  /\ last.done = "raised"
  /\ last.raised = last.pre.err
  /\ last.cleanups = 1

\* C10: Finally, with a cleanup that returns, re-raises if and only if the
\* block is still Unhandled: on Unhandled(v) the call does not return and v
\* is the payload that leaves it; on a Handled or Clean block the call
\* returns and nothing propagates.
C10_RethrowIffUnhandled ==
  (last.op = "Finally" /\ last.blk # Absent /\ last.cb = "ret") =>
     IF Unhandled(last.pre)
     THEN /\ last.done = "raised"
          /\ last.raised = last.pre.err
          /\ IF last.captor = Absent
             THEN status = "fatal" /\ fatalv = last.pre.err
             ELSE heap[last.captor].err = last.pre.err
     ELSE /\ last.done = "returned"
          /\ last.raised = Nil
          /\ status = "running"

\* a Finally on an Unhandled block inside a Try, which captured the payload
C10_Witness ==
  /\ last.op = "Finally"
  /\ last.cb = "ret"
  /\ last.pre = [err |-> S1, handled |-> FALSE]
  /\ last.done = "raised"
  /\ last.captor # Absent
  /\ heap[last.captor].err = S1

\* event a occurs before event b in the sequence ev
Precedes(ev, a, b) ==
  \E i, j \in 1..Len(ev) : i < j /\ ev[i] = a /\ ev[j] = b

\* C11: in a Finally on an Unhandled block the cleanup has run to its end
\* before the re-raise of the payload starts.
C11_CleanupBeforeRethrowStarts ==
  (last.op = "Finally" /\ last.blk # Absent /\ Unhandled(last.pre)) =>
     Precedes(last.events, "cleanup", "panic")

\* C12: a Finally, with a cleanup that returns, on a block still Unhandled(v)
\* inside an enclosing Try makes that Try return another block, which holds
\* v itself (same value, same type, no wrapping) with handled false; the
\* block given to Finally is left as it was.
C12_RethrowReachesEnclosingTryUnchanged ==
  (/\ last.op = "Finally" /\ last.blk # Absent /\ last.cb = "ret"
   /\ Unhandled(last.pre) /\ last.captor # Absent) =>
     /\ last.captor # last.blk
     /\ last.captor \in Returned
     /\ heap[last.captor] = [err |-> last.pre.err, handled |-> FALSE]
     /\ heap[last.blk] = last.pre
     /\ status = "running"

\* the inner block holds a ValidationError nobody took, and its Finally has
\* handed it to the outer Try
C12_Witness ==
  /\ last.op = "Finally"
  /\ last.cb = "ret"
  /\ last.blk = 2
  /\ last.captor = 1
  /\ heap[2] = [err |-> VE, handled |-> FALSE]
  /\ heap[1] = [err |-> VE, handled |-> FALSE]
  /\ stack = <<>>

C14_CleanPath ==
  /\ last.op = "TryReturn" =>
        /\ last.out \in Returned
        /\ heap[last.out] = EmptyBlock
        /\ status = "running"
  /\ (IsDispatch(last.op) /\ last.blk # Absent /\ last.pre = EmptyBlock) =>
        /\ last.calls = 0
        /\ last.done = "returned"
        /\ last.out = last.blk
        /\ heap[last.blk] = EmptyBlock
  /\ (last.op = "Finally" /\ last.blk # Absent /\ last.pre = EmptyBlock) =>
        /\ last.cleanups = 1
        /\ heap[last.blk] = EmptyBlock
        /\ last.cb # "raise" =>
              last.done = "returned" /\ last.raised = Nil /\ status = "running"

\* CatchAny on the Clean block of a Try whose computation returned
C14_Witness ==
  /\ last.op = "CatchAny"
  /\ last.blk = 1
  /\ nblocks = 1
  /\ last.pre = EmptyBlock
  /\ last.calls = 0
  /\ heap[1] = EmptyBlock
  /\ gover = "go1.21"

\* C15: no raised payload disappears.  A raise either kills the process or
\* leaves the capturing block holding a payload (the raised one when it has
\* a type); a Finally on a block whose payload no handler took does not
\* return: the same payload leaves it.
C15_NoPayloadDiscarded ==
  /\ last.done = "raised" =>
        IF last.captor = Absent THEN status = "fatal"
        ELSE /\ heap[last.captor].err # Nil
             /\ last.raised # Nil => heap[last.captor].err = last.raised
  /\ (last.op = "Finally" /\ last.blk # Absent /\ Unhandled(last.pre)) =>
        last.done = "raised" /\ last.raised = last.pre.err

\* C16 as stated: a CatchWithReturn that returns gives a non-nil result if
\* and only if it invoked its handler, whatever the handler returned.
C16_NonNilResultIffInvoked ==
  (last.op = "CatchWithReturn" /\ last.done = "returned") =>
     (last.result # Nil <=> last.calls = 1)

\* C16: a CatchWithReturn that returns gives the value its handler returned
\* when it invoked the handler and nil when it did not; so a non-nil result
\* tells that the handler ran, and a nil result tells nothing, a handler
\* being free to return nil.
C16_ResultIsHandlerValue ==
  (last.op = "CatchWithReturn" /\ last.done = "returned") =>
     /\ last.calls \in {0, 1}
     /\ last.calls = 1 => last.result = last.hret
     /\ last.calls = 0 => last.result = Nil
     /\ last.result # Nil => last.calls = 1

\* CatchWithReturn[ValidationError] on a captured ValidationError, whose
\* handler returned a string
C16_Witness ==
  /\ last.op = "CatchWithReturn"
  /\ last.T = "ValidationError"
  /\ last.pre = [err |-> VE, handled |-> FALSE]
  /\ last.calls = 1
  /\ last.hret = S1
  /\ last.result = S1

\* C17: Catch[T] and CatchWithReturn[T] are one transition of the block.  For
\* either call, on every block (absent, Clean, Unhandled, Handled) and every
\* T: the handler is invoked once when the block is present, Unhandled and
\* its payload is assertable to T, and not at all otherwise; a call that
\* returns gives back the block it was given (a new empty one for the absent
\* block) with the payload it had and handled set if and only if it was set
\* or the handler ran.
C17_TypedStagesAreOneTransition ==
  IsTyped(last.op) =>
     LET fires == /\ last.blk # Absent
                  /\ Unhandled(last.pre)
                  /\ Assertable(last.pre.err, last.T)
     IN /\ last.calls = (IF fires THEN 1 ELSE 0)
        /\ fires => last.arg = last.pre.err
        /\ last.done = "returned" =>
              /\ last.out # Absent
              /\ last.blk # Absent => last.out = last.blk
              /\ heap[last.out] = [err |-> last.pre.err,
                                   handled |-> last.pre.handled \/ fires]

\* CatchWithReturn[error] took a ValidationError and marked the block, as
\* Catch[error] does
C17_Witness ==
  /\ last.op = "CatchWithReturn"
  /\ last.T = "error"
  /\ last.pre = [err |-> VE, handled |-> FALSE]
  /\ last.calls = 1
  /\ last.done = "returned"
  /\ heap[last.out] = [err |-> VE, handled |-> TRUE]

\* C18: Finally on the absent block runs the cleanup exactly once, with no
\* re-raise; the cleanup returning, the call returns to its caller.
C18_FinallyOnAbsentBlock ==
  (last.op = "Finally" /\ last.blk = Absent) =>
     /\ last.cleanups = 1
     /\ last.events = <<"cleanup">>
     /\ last.cb # "raise" =>
           last.done = "returned" /\ last.raised = Nil /\ status = "running"

\* Finally on the absent block, called inside a Try, has returned
C18_Witness ==
  /\ last.op = "Finally"
  /\ last.blk = Absent
  /\ last.cb = "ret"
  /\ last.cleanups = 1
  /\ last.done = "returned"
  /\ stack # <<>>

\* C19: a dispatch call on the absent block invokes no handler and returns a
\* block that is present, new and Clean (CatchWithReturn with a nil result
\* besides); a chain continued from a Clean block fires no handler and its
\* Finally, the cleanup returning, does not re-raise.
C19_DispatchOnAbsentBlock ==
  /\ (IsDispatch(last.op) /\ last.blk = Absent) =>
        /\ last.calls = 0
        /\ last.done = "returned"
        /\ last.result = Nil
        /\ last.out # Absent
        /\ last.out = nblocks
        /\ last.out \in Returned
        /\ heap[last.out] = EmptyBlock
  /\ (IsDispatch(last.op) /\ last.blk # Absent /\ ~Unhandled(last.pre)) =>
        last.calls = 0 /\ ~Unhandled(heap[last.blk])
  /\ (last.op = "Finally" /\ last.blk # Absent /\ ~Unhandled(last.pre)
        /\ last.cb = "ret") =>
        last.done = "returned"

\* CatchWithReturn on the absent block, before any Try: block 1 is the new one
C19_Witness ==
  /\ last.op = "CatchWithReturn"
  /\ last.blk = Absent
  /\ last.out = 1
  /\ last.result = Nil
  /\ heap[1] = EmptyBlock

\* C20: Throw(v) does not return.  Inside a Try the step ends the innermost
\* Try's computation (nothing after the Throw runs in it), the process keeps
\* running, that Try's block holds v when v has a type, and every other
\* block keeps what was done to it before; outside any Try the process dies
\* and the blocks are as they were.
C20_ThrowNeverReturns ==
  [][ last'.op = "Throw" =>
        /\ last'.done = "raised"
        /\ IF stack = <<>>
           THEN status' = "fatal" /\ heap' = heap
           ELSE /\ stack' = Tail(stack)
                /\ status' = "running"
                /\ last'.raised # Nil =>
                      heap'[Head(stack)] = [err |-> last'.raised,
                                            handled |-> FALSE]
                /\ \A b \in 1..MaxBlocks :
                      b # Head(stack) => heap'[b] = heap[b]
    ]_vars

\* inside the outer Try an inner Try's payload was handled, then the outer
\* computation threw: the outer block holds that payload and the inner block
\* is still Handled
C20_Witness ==
  /\ last.op = "Throw"
  /\ last.raised = S2
  /\ last.captor = 1
  /\ heap[1] = [err |-> S2, handled |-> FALSE]
  /\ heap[2] = [err |-> S1, handled |-> TRUE]
  /\ stack = <<>>

\* C21: a Throw, or a re-raise by Finally, while no Try computation is
\* executing ends the process: the status is fatal, the process died with the
\* payload raised (when it has a type), and nothing is executed after it:
\* a dead process is one whose last operation was the raise nobody captured.
C21_UncaughtRaiseIsFatal ==
  /\ (last.op \in {"Throw", "Finally"} /\ last.done = "raised"
        /\ last.captor = Absent) =>
        /\ status = "fatal"
        /\ last.raised # Nil => fatalv = last.raised
  /\ (status = "fatal" /\ watch = "call") =>
        last.done = "raised" /\ last.captor = Absent

\* a Finally outside any Try on a block holding a ValidationError nobody took
C21_Witness ==
  /\ last.op = "Finally"
  /\ last.cb = "ret"
  /\ last.pre = [err |-> VE, handled |-> FALSE]
  /\ last.captor = Absent
  /\ status = "fatal"
  /\ fatalv = VE

\* C22: the payload of a block is written once, by the Try that created the
\* block, when that Try returns: it changes only from nil, only for the
\* block of the innermost executing Try, in the step that ends that Try.  No
\* dispatch call changes the payload of its block, and Finally changes
\* neither field of its block.
C22_PayloadWrittenOnceByTry ==
  [][ /\ \A b \in 1..MaxBlocks :
            heap'[b].err # heap[b].err =>
               /\ heap[b].err = Nil
               /\ b \in 1..nblocks
               /\ stack # <<>> /\ b = Head(stack) /\ stack' = Tail(stack)
      /\ (IsDispatch(last'.op) /\ last'.blk # Absent) =>
            heap'[last'.blk].err = heap[last'.blk].err
      /\ (last'.op = "Finally" /\ last'.blk # Absent) =>
            heap'[last'.blk] = heap[last'.blk]
    ]_vars

\* CatchAny took the payload of a block, and the block still holds it
C22_Witness ==
  /\ last.op = "CatchAny"
  /\ last.calls = 1
  /\ last.arg = S2
  /\ last.done = "returned"
  /\ heap[last.blk] = [err |-> S2, handled |-> TRUE]

\* C23: the handled flag starts false and changes at most once, from false to
\* true: a step changes it only for a block the caller holds, that is
\* Unhandled, in a dispatch call on that block that invoked its handler and
\* returned (the payload being assertable to T for a typed call); it is
\* never reset.
C23_HandledIsMonotonic ==
  [][ /\ \A b \in 1..MaxBlocks :
            heap'[b].handled # heap[b].handled =>
               /\ ~heap[b].handled /\ heap'[b].handled
               /\ b \in Returned
               /\ heap[b].err # Nil
               /\ heap'[b].err = heap[b].err
               /\ watch = "call" =>
                     /\ IsDispatch(last'.op)
                     /\ last'.blk = b
                     /\ last'.calls = 1
                     /\ last'.done = "returned"
                     /\ IsTyped(last'.op) => Assertable(heap[b].err, last'.T)
      /\ nblocks' > nblocks => ~heap'[nblocks'].handled
    ]_vars

\* a CatchWithReturn for the payload's type on a block already Handled
C23_Witness ==
  /\ last.op = "CatchWithReturn"
  /\ last.T = "string"
  /\ last.pre = [err |-> S2, handled |-> TRUE]
  /\ last.calls = 0
  /\ heap[last.blk] = [err |-> S2, handled |-> TRUE]

\* C24 as stated: a block whose handled flag is true has had exactly one
\* handler invoked on its payload.
C24_HandledAfterExactlyOneHandler ==
  watch = "count" =>
     \A b \in 1..MaxBlocks : heap[b].handled => tally[b].calls = 1

\* C24: a block whose handled flag is true has had exactly one handler
\* return on its payload, after the handlers that raised, if any; a block
\* whose flag is false has had none return.  So the flag tells that at least
\* one handler was invoked, and exactly one when no handler raised.
C24_HandledAfterOneReturningHandler ==
  watch = "count" =>
     \A b \in 1..MaxBlocks :
        /\ tally[b].calls = tally[b].raised + (IF heap[b].handled THEN 1 ELSE 0)
        /\ heap[b].handled => tally[b].calls >= 1
        /\ heap[b].err = Nil => tally[b].calls = 0

\* a first handler raised on block 1, a second one returned: Handled after
\* two handlers
C24_Witness ==
  /\ watch = "count"
  /\ heap[1].handled
  /\ tally[1] = [calls |-> 2, raised |-> 1]

\* the positions of event e in the trace
At(e) == {i \in 1..Len(trace.events) : trace.events[i].e = e}

\* C25: in the chain of one block the events come in a fixed order: the
\* computation first, then at most one handler, then the cleanup, once; a
\* stage that does not take the payload leaves no event.  When the handler
\* returned and the cleanup did not raise, the finished chain is exactly
\* [computation, handler, cleanup], with no panic leaving Finally.
C25_ChainEventOrder ==
  trace.blk # Absent =>
     LET ev == trace.events
     IN /\ At("body") = {1}
        /\ Cardinality(At("handler")) <= 1
        /\ Cardinality(At("cleanup")) <= 1
        /\ \A i \in At("handler") :
              /\ ev[i].stage \in 1..trace.stages
              /\ \A j \in At("cleanup") : i < j
        /\ At("cleanup") # {} => ~trace.open
        /\ \A i \in At("handler"), j \in At("cleanup") :
              (ev[i].k = "ret" /\ ev[j].k # "raise") =>
                 ev = <<Event("body", 0, "-"), ev[i], ev[j]>>

\* the chain of TestIntegration_CompleteWorkflow: the first Catch misses, the
\* second takes the ValidationError, the cleanup runs, nothing leaves Finally
C25_Witness ==
  /\ ~trace.open
  /\ trace.blk # Absent
  /\ trace.stages = 2
  /\ heap[trace.blk] = [err |-> VE, handled |-> TRUE]
  /\ trace.events = <<Event("body", 0, "-"), Event("handler", 2, "ret"),
                      Event("cleanup", 0, "ret")>>
  /\ status = "running"

\* C26: every chain Try, dispatch calls, Finally runs its cleanup: a chain
\* that is over, because its Finally was called or because control left it,
\* has a cleanup event.
C26_CleanupRunsInEveryChain ==
  (trace.blk # Absent /\ ~trace.open) => At("cleanup") # {}

\* C27 as stated: a runtime fault is never captured by Try as a block and
\* never given to a handler.
C27_FaultsAreNotCaptured ==
  /\ \A b \in 1..MaxBlocks : heap[b].err # RuntimeFault
  /\ last.calls = 1 => last.arg # RuntimeFault

\* C27: Try captures a runtime fault as it captures any panic.  A fault in a
\* Try computation makes the innermost Try return a block Unhandled on the
\* runtime error, the process running on; outside any Try the process dies
\* with it.  A dispatch call on such a block invokes its handler with the
\* runtime error if and only if it is CatchAny or a typed call for error.
C27_FaultIsCapturedLikeAnyPanic ==
  /\ last.op = "Fault" =>
        /\ last.done = "raised"
        /\ IF last.captor = Absent
           THEN stack = <<>> /\ status = "fatal" /\ fatalv = RuntimeFault
           ELSE /\ last.captor \in Returned
                /\ heap[last.captor] = [err |-> RuntimeFault, handled |-> FALSE]
                /\ status = "running"
  /\ (IsDispatch(last.op) /\ last.blk # Absent
        /\ last.pre = [err |-> RuntimeFault, handled |-> FALSE]) =>
        /\ last.calls = (IF last.op = "CatchAny" \/ last.T = "error" THEN 1 ELSE 0)
        /\ last.calls = 1 => last.arg = RuntimeFault

\* Catch[error] was given the runtime error of a fault that a Try captured
C27_Witness ==
  /\ last.op = "Catch"
  /\ last.T = "error"
  /\ last.calls = 1
  /\ last.arg = RuntimeFault
  /\ heap[last.blk] = [err |-> RuntimeFault, handled |-> TRUE]

\* the number a sequence of decimal digits denotes
RECURSIVE Atoi(_)
Atoi(ds) ==
  IF ds = <<>> THEN 0
  ELSE 10 * Atoi(SubSeq(ds, 1, Len(ds) - 1)) + ds[Len(ds)]

\* C28: a NetworkError from NewNetworkError(url, code) has Timeout false and
\* its message is the status-code form, naming code and url; one from
\* NewNetworkTimeoutError(url) has Timeout true and its message is the
\* timeout form, naming url; and for every NetworkError value the message is
\* the timeout form if and only if Timeout is true.
C28_MessageFormFollowsConstructor ==
  LET e == neterr.rec
      m == neterr.msg
      said == m # NoText
  IN /\ neterr.by = "NewNetworkError" =>
           /\ e.URL = neterr.url /\ e.StatusCode = neterr.code /\ ~e.Timeout
           /\ said => /\ m.head = "network error "
                      /\ Atoi(m.digits) = neterr.code
                      /\ m.mid = " when accessing "
                      /\ m.url = neterr.url
     /\ neterr.by = "NewNetworkTimeoutError" =>
           /\ e.URL = neterr.url /\ e.Timeout
           /\ said => /\ m.head = "network timeout when accessing "
                      /\ m.digits = <<>> /\ m.mid = ""
                      /\ m.url = neterr.url
     /\ said => (m.head = "network timeout when accessing " <=> e.Timeout)

\* a NetworkError literal with status code 404 and Timeout true has said the
\* timeout form
C28_Witness ==
  /\ neterr.by = "literal"
  /\ neterr.rec.StatusCode = 404
  /\ neterr.rec.Timeout
  /\ neterr.msg.head = "network timeout when accessing "
  /\ neterr.msg.url = neterr.rec.URL

C30_CleanupRaiseMasksPayload ==
  (last.op = "Finally" /\ last.cb = "raise") =>
     /\ last.cleanups = 1
     /\ last.done = "raised"
     /\ last.raised = last.cbv
     /\ last.blk # Absent => heap[last.blk] = last.pre
     /\ IF last.captor = Absent
        THEN status = "fatal" /\ fatalv = last.cbv
        ELSE /\ last.captor \in Returned
             /\ heap[last.captor] = [err |-> last.cbv, handled |-> FALSE]
             /\ status = "running"

\* Finally on a block Unhandled on a string, inside a Try, with a cleanup
\* that raised a ValidationError: the Try captured the ValidationError
C30_Witness ==
  /\ last.op = "Finally"
  /\ last.cb = "raise"
  /\ last.pre = [err |-> S1, handled |-> FALSE]
  /\ last.cbv = VE
  /\ last.captor # Absent
  /\ heap[last.captor] = [err |-> VE, handled |-> FALSE]

\* C31 as stated: a raise with the nil payload inside a Try computation is
\* captured like any other: the block the Try returns is not Clean.
C31_NilPayloadIsCaptured ==
  (last.op = "Throw" /\ last.raised = Nil /\ last.captor # Absent) =>
     /\ last.captor \in Returned
     /\ heap[last.captor].err # Nil

\* C32: a dispatch call on a block returns that block, not a copy: the
\* reference it returns is the one it was given, and the block behind the
\* caller's reference has kept its payload and shows the handled flag the call
\* set (true when the handler was invoked and returned, as before otherwise).
C32_DispatchReturnsItsBlock ==
  (IsDispatch(last.op) /\ last.blk # Absent /\ last.done = "returned") =>
     /\ last.out = last.blk
     /\ heap[last.blk].err = last.pre.err
     /\ heap[last.blk].handled = (last.pre.handled \/ last.calls = 1)

\* a Catch[error] that took a ValidationError: the block given is the block
\* returned, and it is Handled now
C32_Witness ==
  /\ last.op = "Catch"
  /\ last.T = "error"
  /\ last.calls = 1
  /\ last.pre = [err |-> VE, handled |-> FALSE]
  /\ last.out = last.blk
  /\ heap[last.blk] = [err |-> VE, handled |-> TRUE]

\* C34: a block that is handled holds a payload, in every reachable state;
\* and the block a dispatch call returns for the nil block is a new one,
\* with no payload and handled false.
C34_HandledImpliesPayload ==
  /\ \A b \in 1..MaxBlocks : heap[b].handled => heap[b].err # Nil
  /\ (IsDispatch(last.op) /\ last.blk = Absent) =>
        /\ last.out # Absent
        /\ heap[last.out] = EmptyBlock
        /\ last.calls = 0

\* one block is Handled on a string; a CatchAny on the nil block has just
\* returned the other, which is empty
C34_Witness ==
  /\ last.op = "CatchAny"
  /\ last.blk = Absent
  /\ last.out = 2
  /\ heap[1] = [err |-> S1, handled |-> TRUE]
  /\ heap[2] = EmptyBlock

C36_OriginalTryReturnsLibraryBlock ==
  (last.op = "OriginalTry"
     /\ (last.comp = "ret" \/ last.raised \in Payloads)) =>
     /\ last.out # Absent
     /\ last.out = last.blk
     /\ last.comp = "ret" => heap[last.out] = EmptyBlock
     /\ (last.comp = "raise" /\ last.raised \in Payloads) =>
           heap[last.out] = [err |-> last.raised, handled |-> FALSE]

\* the goroutines whose handler has been called
Invoked(b) ==
  {g \in Contexts : ctx[g].blk = b /\ ctx[g].fired
                       /\ ctx[g].pc \in {"mark", "done", "raised"}}

\* C33: nothing in a dispatch call orders it with a call by another
\* goroutine on the same block.  Every goroutine whose guard was true calls
\* its handler, whatever the others have done to the block since: the
\* handlers invoked on a block are as many as the goroutines past their
\* guard, each on the block's payload with a matching type, up to one per
\* goroutine; and a goroutine that marked the block leaves it handled.
C33_EveryPassedGuardInvokesItsHandler ==
  \A b \in 1..MaxBlocks :
     /\ tally[b].calls = Cardinality(Invoked(b))
     /\ \A g \in Contexts :
           (ctx[g].blk = b /\ ctx[g].fired) =>
              /\ heap[b].err # Nil
              /\ ctx[g].op # "CatchAny" => Assertable(heap[b].err, ctx[g].T)
              /\ ctx[g].pc = "done" => heap[b].handled
     /\ heap[b].handled => \E g \in Invoked(b) : ctx[g].pc = "done"

\* Catch[error] in one goroutine and CatchAny in the other, on a block
\* Unhandled on a ValidationError: both guards read the flag while it was
\* false in memory, both handlers were invoked, both calls have returned
C33_Witness ==
  /\ heap[1] = [err |-> VE, handled |-> TRUE]
  /\ ctx[1] = [pc |-> "done", op |-> "Catch", T |-> "error", blk |-> 1,
               fired |-> TRUE, late |-> FALSE]
  /\ ctx[2] = [pc |-> "done", op |-> "CatchAny", T |-> "-", blk |-> 1,
               fired |-> TRUE, late |-> FALSE]
  /\ tally[1] = [calls |-> 2, raised |-> 0]

====
